---- MODULE Spec2Model ----
(***************************************************************************)
(* PicPow (Hamster) image compressor: the useCompressor hook (main thread), *)
(* the SettingsBar / FileList handlers that drive it, and the compression   *)
(* worker (engine-wasm.ts self.onmessage -> compressFile -> decodeImage ->  *)
(* encodeImage).  The worker's message handler is an async function: one    *)
(* handler instance is started per message event and suspends at each       *)
(* await, so several handler instances can be in progress at once.          *)
(***************************************************************************)
EXTENDS Integers, Sequences, FiniteSets, TLC

\* ------------------------------------------------------------------ bounds
MaxFiles == 2          \* files added over a session (orchestration runs)
MaxBatch == 2          \* files handed to one addFiles call
MaxCrashes == 1        \* fatal worker error events over a session
MaxRetries == 1        \* retryFile calls over a session
MaxSettingsFiles == 1  \* files added over a session (settings runs)
MaxLiveFiles == 1      \* files added over a session (fair runs)
MaxSize == 40          \* original size in bytes (compressionRatio runs)
MaxNameLen == 5        \* characters of a file name (download runs)
MaxErrLen == 2         \* words of a thrown error's text (catch runs)

\* ------------------------------------------------------------- vocabulary
Undefined == "undefined"   \* JS undefined / null / absent optional field
NoValue == 0 - 1           \* LevelConfig.value absent

SupportedFormat == {"jpeg", "png", "webp", "avif", "jxl", "heic"}
QualityLevel == {"lossless", "high", "balanced", "low"}

Workers == 0..MaxCrashes
Ids == 0..(MaxFiles - 1)

\* error texts (the source's texts are Chinese; these stand for them)
CrashMsg == "engine crashed (unsupported format or out of memory)"
UnsupportedInputMsg == "unsupported input format"
DecodeErrorMsg == "decode failed"
EncodeErrorMsg == "encode failed"
TaskErrorMsgs == {UnsupportedInputMsg, DecodeErrorMsg, EncodeErrorMsg}

\* ---------------------------------------------------------- engine tables
MimeKeys == {"image/jpeg", "image/jpg", "image/png", "image/webp",
             "image/avif", "image/jxl", "image/heic", "image/heif"}

MIME_TO_FORMAT == [m \in MimeKeys |->
    CASE m = "image/jpeg" -> "jpeg"
      [] m = "image/jpg"  -> "jpeg"
      [] m = "image/png"  -> "png"
      [] m = "image/webp" -> "webp"
      [] m = "image/avif" -> "avif"
      [] m = "image/jxl"  -> "jxl"
      [] m = "image/heic" -> "heic"
      [] m = "image/heif" -> "heic"]

FORMAT_TO_MIME == [f \in SupportedFormat |->
    CASE f = "jpeg" -> "image/jpeg"
      [] f = "png"  -> "image/png"
      [] f = "webp" -> "image/webp"
      [] f = "avif" -> "image/avif"
      [] f = "jxl"  -> "image/jxl"
      [] f = "heic" -> "image/heic"]

mimeToFormat(mime) == IF mime \in DOMAIN MIME_TO_FORMAT THEN MIME_TO_FORMAT[mime] ELSE Undefined

formatToMime(format) == FORMAT_TO_MIME[format]

isSupportedFile(mime) == mime \in DOMAIN MIME_TO_FORMAT

\* ------------------------------------------------------ COMPRESSION_CONFIG
LevelSupported(v, l, s) == [value |-> v, isLossless |-> l, supported |-> TRUE]

Level(v, l, s) == [value |-> v, isLossless |-> l, supported |-> s]

\* a table entry that has an extra field
WithExtra(c, more) ==
    [value |-> c.value, isLossless |-> c.isLossless, supported |-> c.supported, extra |-> more]

COMPRESSION_CONFIG == [f \in SupportedFormat |-> [q \in QualityLevel |->
    CASE f = "jpeg" /\ q = "lossless" -> Level(90, FALSE, FALSE)
      [] f = "jpeg" /\ q = "high"     -> Level(90, FALSE, TRUE)
      [] f = "jpeg" /\ q = "balanced" -> Level(80, FALSE, TRUE)
      [] f = "jpeg" /\ q = "low"      -> Level(60, FALSE, TRUE)
      [] f = "png"  /\ q = "lossless" -> Level(2, TRUE, TRUE)
      [] f = "png"  /\ q = "high"     -> Level(2, TRUE, TRUE)
      [] f = "png"  /\ q = "balanced" -> Level(3, TRUE, TRUE)
      [] f = "png"  /\ q = "low"      -> Level(4, TRUE, TRUE)
      [] f = "webp" /\ q = "lossless" -> Level(NoValue, TRUE, TRUE)
      [] f = "webp" /\ q = "high"     -> WithExtra(Level(85, FALSE, TRUE), [method |-> 4])
      [] f = "webp" /\ q = "balanced" -> WithExtra(Level(75, FALSE, TRUE), [method |-> 4])
      [] f = "webp" /\ q = "low"      -> WithExtra(Level(60, FALSE, TRUE), [method |-> 4])
      [] f = "avif" /\ q = "lossless" -> Level(NoValue, TRUE, TRUE)
      [] f = "avif" /\ q = "high"     -> WithExtra(Level(75, FALSE, TRUE), [speed |-> 8])
      [] f = "avif" /\ q = "balanced" -> WithExtra(Level(65, FALSE, TRUE), [speed |-> 8])
      [] f = "avif" /\ q = "low"      -> WithExtra(Level(50, FALSE, TRUE), [speed |-> 8])
      [] f = "jxl"  /\ q = "lossless" -> Level(NoValue, TRUE, TRUE)
      [] f = "jxl"  /\ q = "high"     -> Level(90, FALSE, TRUE)
      [] f = "jxl"  /\ q = "balanced" -> Level(80, FALSE, TRUE)
      [] f = "jxl"  /\ q = "low"      -> Level(60, FALSE, TRUE)
      [] f = "heic"                   -> Level(NoValue, FALSE, FALSE)]]

\* SettingsBar: the target formats that have a button
TARGET_FORMATS == {"jpeg", "png", "webp", "avif", "jxl"}

\* ------------------------------------------------------------------ state
VARIABLES
    files,              \* useState<CompressedFile[]>: sequence of file entries
    settings,           \* useState<CompressorSettings> (= settingsRef.current)
    workerRef,          \* workerRef.current: the worker instance posted to
    live,               \* worker instances created and not terminated
    listeners,          \* per worker instance: ids of the registered handleMessage closures
    inbox,              \* per worker instance: request messages posted, not yet dispatched
    tasks,              \* per worker instance: onmessage handler instances in progress
    outbox,             \* per worker instance: responses posted, not yet delivered
    jxlModuleInstance,  \* per worker instance: 0 = null, else the instance number
    idCounter,          \* genId's counter
    crashes,            \* fatal worker error events so far (= worker instances respawned)
    retries,            \* retryFile calls so far
    sent,               \* per id: request messages posted with that id
    posted,             \* per id: responses posted by a worker with that id
    resolved,           \* per id: handleMessage closures that ran to resolve()
    lastEncode,         \* arguments of the most recent encodeImage call
    lastOp,             \* the most recent operation and the id it was about
    encodeCall,         \* the codec call made by the most recent direct encodeImage run
    offered,            \* the File[] handed to the most recent observed addFiles call
    utilCall            \* the most recent direct run of a helper: its arguments and result

vars == <<files, settings, workerRef, live, listeners, inbox, tasks, outbox,
          jxlModuleInstance, idCounter, crashes, retries, sent, posted, resolved,
          lastEncode, lastOp, encodeCall, offered, utilCall>>

mainVars == <<files, settings, workerRef, live, listeners, idCounter, crashes, retries, sent, resolved>>
workerVars == <<inbox, tasks, outbox, jxlModuleInstance, posted, lastEncode>>
callVars == <<encodeCall, offered, utilCall>>

DefaultSettings == [quality |-> "balanced", format |-> Undefined]

Op(name, id) == [op |-> name, id |-> id]
NoId == 0 - 1

\* a codec call: the encoder module and the options it is given
\* (quality, lossless, level, effort; an option that is not passed has NoValue,
\* or FALSE for lossless; encode adds the options that only some codecs get)
Call(encoder, q, lossless, level, effort) ==
    [encoder |-> encoder, quality |-> q, lossless |-> lossless, level |-> level, effort |-> effort]

\* no direct encodeImage run yet
NoCall ==
    [format |-> Undefined, mode |-> Undefined, config |-> Level(NoValue, FALSE, FALSE),
     pixels |-> 0, call |-> Call(Undefined, NoValue, FALSE, NoValue, NoValue)]

\* no direct run of a helper yet
NoUtil == [fn |-> "none"]

Init ==
    /\ files = <<>>
    /\ settings = DefaultSettings
    /\ workerRef = 0
    /\ live = {0}
    /\ listeners = [w \in Workers |-> <<>>]
    /\ inbox = [w \in Workers |-> <<>>]
    /\ tasks = [w \in Workers |-> <<>>]
    /\ outbox = [w \in Workers |-> <<>>]
    /\ jxlModuleInstance = [w \in Workers |-> 0]
    /\ idCounter = 0
    /\ crashes = 0
    /\ retries = 0
    /\ sent = [i \in Ids |-> 0]
    /\ posted = [i \in Ids |-> 0]
    /\ resolved = [i \in Ids |-> 0]
    /\ lastEncode = [format |-> Undefined, quality |-> Undefined]
    /\ lastOp = Op("init", NoId)
    /\ encodeCall = NoCall
    /\ offered = <<>>
    /\ utilCall = NoUtil

\* ---------------------------------------------------------------- helpers
RemoveAt(s, i) == SubSeq(s, 1, i - 1) \o SubSeq(s, i + 1, Len(s))

CountId(s, id) == Cardinality({i \in DOMAIN s : s[i].id = id})

HasFile(id) == \E i \in DOMAIN files : files[i].id = id

FileOf(id) == files[CHOOSE i \in DOMAIN files : files[i].id = id]

StatusOf(id) == IF HasFile(id) THEN FileOf(id).status ELSE "absent"

Batches(mimes, n) == UNION {[1..k -> mimes] : k \in 1..n}

\* ---------------------------------------------------------- file-io.ts
\* compressionRatio(original, compressed): the integers that
\* Math.round(((original - compressed) / original) * 100) can return.  Away
\* from an exact half that is the nearest integer; at an exact half
\* Math.round goes up, or down when the double-precision product falls short
\* of the half (as for 40 and 17, where it is 57.49999999999999).
compressionRatioTruncated(original, compressed) ==
    IF original = 0 THEN {0}
    ELSE {(100 * (original - compressed)) \div original}

compressionRatio(original, compressed) ==
    IF original = 0 THEN {0}
    ELSE LET twice == 200 * (original - compressed) + original
             up == twice \div (2 * original)
         IN  IF twice % (2 * original) = 0 THEN {up - 1, up} ELSE {up}

\* the ratio the success updater stores (the runs that go through the hook
\* use sizes away from an exact half, where compressionRatio has one result)
ratioOf(original, compressed) ==
    CHOOSE r \in compressionRatio(original, compressed) :
        \A q \in compressionRatio(original, compressed) : q <= r

\* ------------------------------------------------- useCompressor (main thread)
\* genId: the id made from the counter value it reads (and then increments)
genIdFixed(counter) == 0

genId(counter) == counter

\* the size in bytes of a file or blob, and the time a compression took, in
\* the runs that do not vary them
AnySize == 1

Elapsed == 1

\* addFiles: the entry built for one supported file (ratio: number | null is
\* <<>> or <<ratio>>, a ratio being of either sign)
NewEntry(id, mime, s) ==
    [id |-> id,
     mime |-> mime,
     originalSize |-> AnySize,
     compressedSize |-> NoValue,
     ratio |-> <<>>,
     time |-> NoValue,
     status |-> "pending",
     error |-> Undefined,
     compressedBlob |-> Undefined,
     outputFormat |-> IF s.format # Undefined THEN s.format
                      ELSE IF mimeToFormat(mime) = "heic" THEN "jpeg"
                      ELSE IF mimeToFormat(mime) # Undefined THEN mimeToFormat(mime)
                      ELSE "jxl",
     appliedSettings |-> s]

\* processFile: the first setFiles updater
SetCompressing(fs, id) ==
    [i \in DOMAIN fs |->
        IF fs[i].id = id THEN [fs[i] EXCEPT !.status = "compressing"] ELSE fs[i]]

\* processFile: the request message handed to postMessage
RequestStale(id, mime, s) ==
    [id |-> id, mime |-> mime, quality |-> DefaultSettings.quality, format |-> DefaultSettings.format]

Request(id, mime, s) ==
    [id |-> id, mime |-> mime, quality |-> s.quality, format |-> s.format]

\* handleMessage: the guard of its first line
ListenerMatchesAny(lid, data) == TRUE

ListenerMatches(lid, data) == data.id = lid

\* handleMessage: the setFiles updater of the success and of the failure branch
handleMessageDoneAll(fs, id, data, s) ==
    LET Done(f) == [f EXCEPT !.status = "done", !.compressedBlob = data.blob,
                             !.compressedSize = data.size,
                             !.ratio = <<ratioOf(f.originalSize, data.size)>>,
                             !.time = data.time,
                             !.outputFormat = IF s.format # Undefined THEN s.format ELSE f.outputFormat]
        Fail(f) == IF f.id = id THEN [f EXCEPT !.status = "error", !.error = data.error] ELSE f
    IN  [i \in DOMAIN fs |-> IF data.success THEN Done(fs[i]) ELSE Fail(fs[i])]

handleMessageFailAll(fs, id, data, s) ==
    LET Done(f) == IF f.id # id THEN f
                   ELSE [f EXCEPT !.status = "done", !.compressedBlob = data.blob,
                                  !.compressedSize = data.size,
                                  !.ratio = <<ratioOf(f.originalSize, data.size)>>,
                                  !.time = data.time,
                                  !.outputFormat = IF s.format # Undefined THEN s.format ELSE f.outputFormat]
        Fail(f) == [f EXCEPT !.status = "error", !.error = data.error]
    IN  [i \in DOMAIN fs |-> IF data.success THEN Done(fs[i]) ELSE Fail(fs[i])]

handleMessageSwapped(fs, id, data, s) ==
    LET Done(f) == IF f.id # id THEN f
                   ELSE [f EXCEPT !.status = "done", !.compressedBlob = data.blob,
                                  !.compressedSize = data.size,
                                  !.ratio = <<ratioOf(data.size, f.originalSize)>>,
                                  !.time = data.time,
                                  !.outputFormat = IF s.format # Undefined THEN s.format ELSE f.outputFormat]
        Fail(f) == IF f.id = id THEN [f EXCEPT !.status = "error", !.error = data.error] ELSE f
    IN  [i \in DOMAIN fs |-> IF data.success THEN Done(fs[i]) ELSE Fail(fs[i])]

handleMessageUpsert(fs, id, data, s) ==
    LET Done(f) == [f EXCEPT !.status = "done", !.compressedBlob = data.blob,
                             !.compressedSize = data.size,
                             !.ratio = <<ratioOf(f.originalSize, data.size)>>,
                             !.time = data.time,
                             !.outputFormat = IF s.format # Undefined THEN s.format ELSE f.outputFormat]
        Fail(f) == [f EXCEPT !.status = "error", !.error = data.error]
        Upd(f) == IF data.success THEN Done(f) ELSE Fail(f)
    IN  IF \E i \in DOMAIN fs : fs[i].id = id
        THEN [i \in DOMAIN fs |-> IF fs[i].id = id THEN Upd(fs[i]) ELSE fs[i]]
        ELSE Append(fs, Upd(NewEntry(id, "image/jpeg", s)))

handleMessage(fs, id, data, s) ==
    LET Done(f) == IF f.id # id THEN f
                   ELSE [f EXCEPT !.status = "done", !.compressedBlob = data.blob,
                                  !.compressedSize = data.size,
                                  !.ratio = <<ratioOf(f.originalSize, data.size)>>,
                                  !.time = data.time,
                                  !.outputFormat = IF s.format # Undefined THEN s.format ELSE f.outputFormat]
        Fail(f) == IF f.id = id THEN [f EXCEPT !.status = "error", !.error = data.error] ELSE f
    IN  [i \in DOMAIN fs |-> IF data.success THEN Done(fs[i]) ELSE Fail(fs[i])]

\* the message event runs every registered listener, in registration order
RECURSIVE FireListeners(_, _, _, _, _)
FireListeners(fs, L, k, data, s) ==
    IF k > Len(L) THEN fs
    ELSE FireListeners(IF ListenerMatches(L[k], data) THEN handleMessage(fs, L[k], data, s) ELSE fs,
                       L, k + 1, data, s)

\* w.onerror: the setFiles updater
onerrorFilesAll(fs) ==
    [i \in DOMAIN fs |-> [fs[i] EXCEPT !.status = "error", !.error = CrashMsg]]

onerrorFiles(fs) ==
    [i \in DOMAIN fs |->
        IF fs[i].status = "compressing"
        THEN [fs[i] EXCEPT !.status = "error", !.error = CrashMsg]
        ELSE fs[i]]

\* w.onerror: the worker instances alive after w.terminate() and initWorker()
onerrorLiveKeep(alive, w, fresh) == alive \cup {fresh}

onerrorLive(alive, w, fresh) == (alive \ {w}) \cup {fresh}

\* let jxlModuleInstance = null, evaluated when a worker instance starts: the
\* new instance's value, whatever the terminated instance's was
jxlModuleAtStartKept(old) == old

jxlModuleAtStart(old) == 0

\* w.onerror: the value stored in workerRef.current
onerrorWorkerRefStale(old, fresh) == old

onerrorWorkerRef(old, fresh) == fresh

\* FileList: the retry button is rendered for a file in status error only
retryButtonAlways(f) == TRUE

retryButton(f) == f.status = "error"

\* the batch of processFile calls at the end of addFiles
RECURSIVE ProcessEntries(_, _, _)
ProcessEntries(fs, entries, k) ==
    IF k > Len(entries) THEN fs
    ELSE ProcessEntries(SetCompressing(fs, entries[k].id), entries, k + 1)

isCompressing == \E i \in DOMAIN files : files[i].status = "compressing"

\* addFiles past its early return, for files of those types and sizes
AddSizedSupported(newFiles, sizes, cap) ==
    LET both == [k \in DOMAIN newFiles |-> [mime |-> newFiles[k], size |-> sizes[k]]]
        supported == SelectSeq(both, LAMBDA file : isSupportedFile(file.mime))
        n == Len(supported)
        entries == [k \in 1..n |->
                       [NewEntry(genId(idCounter + k - 1), supported[k].mime, settings)
                           EXCEPT !.originalSize = supported[k].size]]
    IN  /\ n > 0
        /\ idCounter + n <= cap
        /\ files' = ProcessEntries(files \o entries, entries, 1)
        /\ idCounter' = idCounter + n
        /\ listeners' = [listeners EXCEPT ![workerRef] = @ \o [k \in 1..n |-> entries[k].id]]
        /\ inbox' = [inbox EXCEPT ![workerRef] =
                        @ \o [k \in 1..n |-> Request(entries[k].id, entries[k].mime, settings)]]
        /\ sent' = [i \in Ids |-> IF i >= idCounter /\ i < idCounter + n THEN sent[i] + 1 ELSE sent[i]]
        /\ lastOp' = Op("addFiles", idCounter)
        /\ UNCHANGED <<settings, workerRef, live, tasks, outbox, jxlModuleInstance,
                       crashes, retries, posted, resolved, lastEncode>>

\* addFiles past its early return, the sizes not varied
AddSupported(newFiles, cap) ==
    AddSizedSupported(newFiles, [k \in DOMAIN newFiles |-> AnySize], cap)

AddFiles(newFiles, cap) ==
    /\ AddSupported(newFiles, cap)
    /\ UNCHANGED callVars

\* addFiles for files of those types and sizes
AddSizedFiles(newFiles, sizes, cap) ==
    /\ AddSizedSupported(newFiles, sizes, cap)
    /\ UNCHANGED callVars

\* addFiles with its argument kept in view, the early return included
OfferFiles(newFiles, cap) ==
    /\ offered' = newFiles
    /\ IF SelectSeq(newFiles, isSupportedFile) = <<>>
       THEN /\ lastOp' = Op("addFiles", NoId)
            /\ UNCHANGED <<files, settings, workerRef, live, listeners, idCounter,
                           crashes, retries, sent, resolved>>
            /\ UNCHANGED workerVars
       ELSE AddSupported(newFiles, cap)
    /\ UNCHANGED <<encodeCall, utilCall>>

RetryFile(id) ==
    /\ retries < MaxRetries
    /\ HasFile(id)
    /\ retryButton(FileOf(id))
    /\ files' = SetCompressing(files, id)
    /\ listeners' = [listeners EXCEPT ![workerRef] = Append(@, id)]
    /\ inbox' = [inbox EXCEPT ![workerRef] = Append(@, Request(id, FileOf(id).mime, settings))]
    /\ sent' = [sent EXCEPT ![id] = @ + 1]
    /\ retries' = retries + 1
    /\ lastOp' = Op("retryFile", id)
    /\ UNCHANGED <<settings, workerRef, live, tasks, outbox, jxlModuleInstance,
                   idCounter, crashes, posted, resolved, lastEncode>>
    /\ UNCHANGED callVars

RemoveFile(id) ==
    /\ HasFile(id)
    /\ files' = SelectSeq(files, LAMBDA f : f.id # id)
    /\ lastOp' = Op("removeFile", id)
    /\ UNCHANGED <<settings, workerRef, live, listeners, idCounter, crashes, retries, sent, resolved>>
    /\ UNCHANGED workerVars
    /\ UNCHANGED callVars

ClearAll ==
    /\ files # <<>>
    /\ files' = <<>>
    /\ lastOp' = Op("clearAll", NoId)
    /\ UNCHANGED <<settings, workerRef, live, listeners, idCounter, crashes, retries, sent, resolved>>
    /\ UNCHANGED workerVars
    /\ UNCHANGED callVars

\* a message event of worker instance w is dispatched on the main thread
Deliver(w) ==
    /\ w \in live
    /\ outbox[w] # <<>>
    /\ LET data == Head(outbox[w])
           L == listeners[w]
           fired == {k \in DOMAIN L : ListenerMatches(L[k], data)}
       IN  /\ files' = FireListeners(files, L, 1, data, settings)
           /\ listeners' = IF w = workerRef
                           THEN [listeners EXCEPT ![w] = SelectSeq(L, LAMBDA lid : ~ListenerMatches(lid, data))]
                           ELSE listeners
           /\ resolved' = [i \in Ids |-> resolved[i] + Cardinality({k \in fired : L[k] = i})]
           /\ lastOp' = Op(IF data.success THEN "deliverSuccess" ELSE "deliverFailure", data.id)
    /\ outbox' = [outbox EXCEPT ![w] = Tail(@)]
    /\ UNCHANGED <<settings, workerRef, live, inbox, tasks, jxlModuleInstance,
                   idCounter, crashes, retries, sent, posted, lastEncode>>
    /\ UNCHANGED callVars

\* the error event of worker instance w: w.onerror
WorkerError(w) ==
    /\ w \in live
    /\ crashes < MaxCrashes
    /\ LET fresh == crashes + 1
       IN  /\ files' = onerrorFiles(files)
           /\ live' = onerrorLive(live, w, fresh)
           /\ workerRef' = onerrorWorkerRef(workerRef, fresh)
    /\ inbox' = [inbox EXCEPT ![w] = <<>>]
    /\ tasks' = [tasks EXCEPT ![w] = <<>>]
    /\ outbox' = [outbox EXCEPT ![w] = <<>>]
    /\ jxlModuleInstance' = [jxlModuleInstance EXCEPT
                                 ![crashes + 1] = jxlModuleAtStart(jxlModuleInstance[w])]
    /\ crashes' = crashes + 1
    /\ lastOp' = Op("workerError", NoId)
    /\ UNCHANGED <<settings, listeners, idCounter, retries,
                   sent, posted, resolved, lastEncode>>
    /\ UNCHANGED callVars

\* ------------------------------------------------ worker (engine-wasm.ts)
\* compressFile: the output format of a request
OutputFormat(t) == IF t.format # Undefined THEN t.format ELSE mimeToFormat(t.mime)

\* self.onmessage: the two postMessage calls (blob is the blob's type, size its
\* size in bytes)
SuccessResponse(t) ==
    [id |-> t.id, success |-> TRUE, blob |-> formatToMime(OutputFormat(t)), size |-> AnySize,
     time |-> Elapsed, error |-> Undefined]

FailureResponse(t, msg) ==
    [id |-> t.id, success |-> FALSE, blob |-> Undefined, size |-> NoValue,
     time |-> NoValue, error |-> msg]

\* the handler instance at index i of worker w ends by posting response r
PostSuccessOnly(w, i, r) ==
    /\ tasks' = [tasks EXCEPT ![w] = RemoveAt(@, i)]
    /\ outbox' = [outbox EXCEPT ![w] = IF r.success THEN Append(@, r) ELSE @]
    /\ posted' = [posted EXCEPT ![r.id] = IF r.success THEN @ + 1 ELSE @]

Post(w, i, r) ==
    /\ tasks' = [tasks EXCEPT ![w] = RemoveAt(@, i)]
    /\ outbox' = [outbox EXCEPT ![w] = Append(@, r)]
    /\ posted' = [posted EXCEPT ![r.id] = @ + 1]

\* self.onmessage is entered for the next message event; it runs compressFile
\* up to the first await of decodeImage
WorkerReceive(w) ==
    /\ w \in live
    /\ inbox[w] # <<>>
    /\ LET m == Head(inbox[w])
       IN  /\ inbox' = [inbox EXCEPT ![w] = Tail(@)]
           /\ IF mimeToFormat(m.mime) = Undefined
              THEN /\ outbox' = [outbox EXCEPT ![w] = Append(@, FailureResponse(m, UnsupportedInputMsg))]
                   /\ posted' = [posted EXCEPT ![m.id] = @ + 1]
                   /\ tasks' = tasks
              ELSE /\ tasks' = [tasks EXCEPT ![w] = Append(@,
                                   [id |-> m.id, mime |-> m.mime, quality |-> m.quality,
                                    format |-> m.format, pc |-> "decode"])]
                   /\ UNCHANGED <<outbox, posted>>
           /\ lastOp' = Op("workerReceive", m.id)
    /\ UNCHANGED <<jxlModuleInstance, lastEncode>>
    /\ UNCHANGED mainVars
    /\ UNCHANGED callVars

\* decodeImage rejects: the catch of self.onmessage posts the failure
DecodeThrows(w, i) ==
    /\ w \in live
    /\ i \in DOMAIN tasks[w]
    /\ tasks[w][i].pc = "decode"
    /\ Post(w, i, FailureResponse(tasks[w][i], DecodeErrorMsg))
    /\ lastOp' = Op("decodeThrows", tasks[w][i].id)
    /\ UNCHANGED <<inbox, jxlModuleInstance, lastEncode>>
    /\ UNCHANGED mainVars
    /\ UNCHANGED callVars

\* decodeImage resolves: encodeImage is entered and runs up to its first await;
\* the jxl case with the encoder instance present has none and ends in module.encode
DecodeReturns(w, i, encodeOk) ==
    /\ w \in live
    /\ i \in DOMAIN tasks[w]
    /\ tasks[w][i].pc = "decode"
    /\ LET t == tasks[w][i]
           format == OutputFormat(t)
       IN  /\ lastEncode' = [format |-> format, quality |-> t.quality]
           /\ IF format = "jxl" /\ jxlModuleInstance[w] # 0
              THEN Post(w, i, IF encodeOk THEN SuccessResponse(t) ELSE FailureResponse(t, EncodeErrorMsg))
              ELSE /\ tasks' = [tasks EXCEPT ![w][i].pc = IF format = "jxl" THEN "jxlinit" ELSE "encode"]
                   /\ UNCHANGED <<outbox, posted>>
           /\ lastOp' = Op("decodeReturns", t.id)
    /\ UNCHANGED <<inbox, jxlModuleInstance>>
    /\ UNCHANGED mainVars
    /\ UNCHANGED callVars

\* the jxl encoder factory resolves: the instance is stored and module.encode runs
JxlInitReturns(w, i, encodeOk) ==
    /\ w \in live
    /\ i \in DOMAIN tasks[w]
    /\ tasks[w][i].pc = "jxlinit"
    /\ jxlModuleInstance' = [jxlModuleInstance EXCEPT ![w] = @ + 1]
    /\ LET t == tasks[w][i]
       IN  /\ Post(w, i, IF encodeOk THEN SuccessResponse(t) ELSE FailureResponse(t, EncodeErrorMsg))
           /\ lastOp' = Op("jxlInitReturns", t.id)
    /\ UNCHANGED <<inbox, lastEncode>>
    /\ UNCHANGED mainVars
    /\ UNCHANGED callVars

\* the awaited encoder of a non-jxl format resolves with a buffer of that size
EncodeReturnsSized(w, i, size) ==
    /\ w \in live
    /\ i \in DOMAIN tasks[w]
    /\ tasks[w][i].pc = "encode"
    /\ Post(w, i, [SuccessResponse(tasks[w][i]) EXCEPT !.size = size])
    /\ lastOp' = Op("encodeReturns", tasks[w][i].id)
    /\ UNCHANGED <<inbox, jxlModuleInstance, lastEncode>>
    /\ UNCHANGED mainVars
    /\ UNCHANGED callVars

\* the awaited encoder of a non-jxl format resolves, the size not varied
EncodeReturns(w, i) == EncodeReturnsSized(w, i, AnySize)

\* the awaited encoder of a non-jxl format rejects
EncodeThrows(w, i) ==
    /\ w \in live
    /\ i \in DOMAIN tasks[w]
    /\ tasks[w][i].pc = "encode"
    /\ Post(w, i, FailureResponse(tasks[w][i], EncodeErrorMsg))
    /\ lastOp' = Op("encodeThrows", tasks[w][i].id)
    /\ UNCHANGED <<inbox, jxlModuleInstance, lastEncode>>
    /\ UNCHANGED mainVars
    /\ UNCHANGED callVars

\* ------------------------------------------- encodeImage (engine-wasm.ts)
\* the value used when the table entry has none
DefaultQuality == 80

\* the level handed to the oxipng optimiser
PngLevel == 2

\* the LevelConfig values the table's type admits (description and extra left out)
LevelConfigs == [value : (0..100) \cup {NoValue}, isLossless : BOOLEAN, supported : BOOLEAN]

\* image sizes <<width, height>> on both sides of each pixel-count threshold
Dims == {<<1, 1>>, <<499, 501>>, <<500, 500>>, <<1, 499999>>, <<500, 1000>>,
         <<1, 1499999>>, <<1000, 1500>>, <<2000, 1500>>, <<4000, 3000>>}

\* const config = COMPRESSION_CONFIG[format]?.[qualityMode]
config(format, qualityMode) == COMPRESSION_CONFIG[format][qualityMode]

\* const quality = config?.value ?? 80
qualityDefault(c) == DefaultQuality

quality(c) == IF c.value # NoValue THEN c.value ELSE DefaultQuality

\* const isLossless = config?.isLossless ?? false
isLosslessNever(c) == FALSE

isLossless(c) == c.isLossless

\* the jxl case: the effort chosen from the pixel count
dynamicEffortInclusive(totalPixels) ==
    IF totalPixels <= 250000 THEN 5
    ELSE IF totalPixels <= 500000 THEN 3
    ELSE IF totalPixels <= 1500000 THEN 2
    ELSE 1

dynamicEffort(totalPixels) ==
    IF totalPixels < 250000 THEN 5
    ELSE IF totalPixels < 500000 THEN 3
    ELSE IF totalPixels < 1500000 THEN 2
    ELSE 1

\* the jxl case: the quality put into options
finalQualityResolved(q, lossless) == q

finalQuality(q, lossless) == IF lossless THEN 100 ELSE q

\* the heic case: the quality handed to the jpeg encoder
heicQuality(q) == IF q >= 90 THEN 90 ELSE IF q >= 80 THEN 80 ELSE 60

\* the switch of encodeImage
\* config?.extra || fallback
extraOr(c, fallback) == IF "extra" \in DOMAIN c THEN c.extra ELSE fallback

\* { ...options, ...more }: the options, with those of more added or put over them
spread(options, more) ==
    [k \in DOMAIN options \cup DOMAIN more |-> IF k \in DOMAIN more THEN more[k] ELSE options[k]]

\* the jxl options that do not depend on the image or the table
JxlLossyOptions ==
    [progressive |-> FALSE, epf |-> 0 - 1, lossyPalette |-> TRUE,
     decodingSpeedTier |-> 0, photonNoiseIso |-> 0, lossyModular |-> TRUE]

JxlFixedOptions ==
    [progressive |-> FALSE, epf |-> 0 - 1, lossyPalette |-> FALSE,
     decodingSpeedTier |-> 0, photonNoiseIso |-> 0, lossyModular |-> FALSE]

\* the codec call encodeImage makes for that format, table entry and pixel count
encode(format, c, totalPixels) ==
    CASE format = "jpeg" -> Call("jpeg", quality(c), FALSE, NoValue, NoValue)
      [] format = "png"  -> Call("oxipng", NoValue, FALSE, PngLevel, NoValue)
      [] format = "webp" -> IF isLossless(c) THEN Call("webp", NoValue, TRUE, NoValue, NoValue)
                            ELSE spread(Call("webp", quality(c), FALSE, NoValue, NoValue),
                                        extraOr(c, <<>>))
      [] format = "avif" -> IF isLossless(c) THEN Call("avif", NoValue, TRUE, NoValue, NoValue)
                            ELSE spread(Call("avif", quality(c), FALSE, NoValue, NoValue),
                                        extraOr(c, [speed |-> 8]))
      [] format = "jxl"  -> spread(Call("jxl", finalQuality(quality(c), isLossless(c)), FALSE,
                                        NoValue, dynamicEffort(totalPixels)),
                                   JxlFixedOptions)
      [] format = "heic" -> Call("jpeg", heicQuality(quality(c)), FALSE, NoValue, NoValue)

\* one run of encodeImage on an image of size dims, with table entry c
RunEncode(format, qualityMode, c, dims) ==
    /\ encodeCall' = [format |-> format, mode |-> qualityMode, config |-> c,
                      pixels |-> dims[1] * dims[2],
                      call |-> encode(format, c, dims[1] * dims[2])]
    /\ lastOp' = Op("encodeImage", NoId)
    /\ UNCHANGED <<offered, utilCall>>
    /\ UNCHANGED mainVars
    /\ UNCHANGED workerVars

\* encodeImage(imageData, format, qualityMode) against COMPRESSION_CONFIG
EncodeImage(format, qualityMode, dims) ==
    RunEncode(format, qualityMode, config(format, qualityMode), dims)

\* encodeImage against any entry the table's type admits (one run per behaviour:
\* the function keeps nothing from one run to the next outside the jxl instance)
EncodeWithConfig(format, c, dims) ==
    /\ encodeCall = NoCall
    /\ RunEncode(format, Undefined, c, dims)

\* ------------------------------------------------------------ SettingsBar
\* the table row whose supported levels get a button
actualConfigKey(s) ==
    LET currentFormat == IF s.format # Undefined THEN s.format ELSE "auto"
        effectiveFormat == IF currentFormat = "heic" THEN "jpeg" ELSE currentFormat
    IN  IF effectiveFormat = "auto" THEN "jpeg" ELSE effectiveFormat

\* the "keep original format" button
ChooseKeepOriginal ==
    /\ ~isCompressing
    /\ settings' = [settings EXCEPT !.format = Undefined]
    /\ lastOp' = Op("chooseKeepOriginal", NoId)
    /\ UNCHANGED <<files, workerRef, live, listeners, idCounter, crashes, retries, sent, resolved>>
    /\ UNCHANGED workerVars
    /\ UNCHANGED callVars

\* a target format button
ChooseFormat(value) ==
    /\ ~isCompressing
    /\ value \in TARGET_FORMATS
    /\ LET nextQuality == IF settings.quality = "lossless" /\ ~COMPRESSION_CONFIG[value]["lossless"].supported
                          THEN "high" ELSE settings.quality
       IN  settings' = [quality |-> nextQuality, format |-> value]
    /\ lastOp' = Op("chooseFormat", NoId)
    /\ UNCHANGED <<files, workerRef, live, listeners, idCounter, crashes, retries, sent, resolved>>
    /\ UNCHANGED workerVars
    /\ UNCHANGED callVars

\* a quality level button
ChooseQuality(level) ==
    /\ ~isCompressing
    /\ COMPRESSION_CONFIG[actualConfigKey(settings)][level].supported
    /\ settings' = [settings EXCEPT !.quality = level]
    /\ lastOp' = Op("chooseQuality", NoId)
    /\ UNCHANGED <<files, workerRef, live, listeners, idCounter, crashes, retries, sent, resolved>>
    /\ UNCHANGED workerVars
    /\ UNCHANGED callVars

\* resetSettings
ResetSettings ==
    /\ settings' = DefaultSettings
    /\ lastOp' = Op("resetSettings", NoId)
    /\ UNCHANGED <<files, workerRef, live, listeners, idCounter, crashes, retries, sent, resolved>>
    /\ UNCHANGED workerVars
    /\ UNCHANGED callVars

\* ------------------------------------------- file-io.ts, run directly
\* one run of compressionRatio (one run per behaviour: the function keeps nothing)
CompressionRatio(original, compressed) ==
    /\ utilCall.fn = "none"
    /\ \E ratio \in compressionRatio(original, compressed) :
          utilCall' = [fn |-> "compressionRatio", original |-> original,
                       compressed |-> compressed, ratio |-> ratio]
    /\ lastOp' = Op("compressionRatio", NoId)
    /\ UNCHANGED <<encodeCall, offered>>
    /\ UNCHANGED mainVars
    /\ UNCHANGED workerVars

\* file names, character by character: a letter and the dot
NameChars == {"a", "."}

Names == UNION {[1..n -> NameChars] : n \in 1..MaxNameLen}

\* mimeToExtension(mime)
mimeToExtensionPlain(mime) ==
    LET format == mimeToFormat(mime)
    IN  IF format = Undefined THEN "jpg" ELSE format

mimeToExtension(mime) ==
    LET format == mimeToFormat(mime)
    IN  IF format = Undefined THEN "jpg"
        ELSE IF format = "jpeg" THEN "jpg" ELSE format

\* name.replace(/\.[^.]+$/, ""): the match is a dot followed by one or more
\* characters other than a dot, up to the end of the name; the leftmost
\* match is cut out
baseName(name) ==
    LET matches == {p \in 1..Len(name) :
                        /\ name[p] = "."
                        /\ p < Len(name)
                        /\ \A k \in (p + 1)..Len(name) : name[k] # "."}
    IN  IF matches = {} THEN name
        ELSE SubSeq(name, 1, (CHOOSE p \in matches : \A q \in matches : p <= q) - 1)

\* `${baseName}_compressed.${ext}`
downloadName(name, type) ==
    baseName(name) \o <<"_compressed", ".">> \o <<mimeToExtension(type)>>

\* downloadFile(id) for a file of that name whose compressedBlob has that type
\* (one run per behaviour: the call changes nothing)
DownloadFile(name, type) ==
    /\ utilCall.fn = "none"
    /\ utilCall' = [fn |-> "downloadFile", name |-> name, type |-> type,
                    filename |-> downloadName(name, type)]
    /\ lastOp' = Op("downloadFile", NoId)
    /\ UNCHANGED <<encodeCall, offered>>
    /\ UNCHANGED mainVars
    /\ UNCHANGED workerVars

\* --------------------------------------- error messages (engine-wasm.ts)
\* An error message is its text, word by word, and the diagnostics written
\* into it: <<>> or <<width, height, options>>.
Message(words, diag) == [words |-> words, diag |-> diag]

\* words of a codec's or decoder's own error text: the three that the catch
\* looks for, and one other
ErrorWords == {"unreachable", "memory", "OOM", "failed"}

ErrorTexts == UNION {[1..n -> ErrorWords] : n \in 0..MaxErrLen}

\* the stages of compressFile that throw
Stages == {"input", "decode", "encode"}

\* the fixed text posted for an out-of-memory failure
InsufficientMemoryMsg == Message(<<"compression failed: insufficient memory">>, <<>>)

\* errorMsg.includes(word)
includes(msg, word) == \E k \in DOMAIN msg.words : msg.words[k] = word

\* the catch of self.onmessage: the message posted for a caught error
errorMsgNoOOM(msg) ==
    IF includes(msg, "unreachable") \/ includes(msg, "memory")
    THEN InsufficientMemoryMsg
    ELSE msg

errorMsg(msg) ==
    IF includes(msg, "unreachable") \/ includes(msg, "memory") \/ includes(msg, "OOM")
    THEN InsufficientMemoryMsg
    ELSE msg

\* the catch around module.encode: the Error thrown in place of err.  Its
\* text is a fixed heading, String(err), the size and JSON.stringify(options);
\* neither the headings nor the option names contain one of the three words.
jxlCrashMessage(err, width, height, options) ==
    Message(<<"JXL encode overflow", "[WASM stack]:">> \o err.words \o <<"[engine parameters]:">>,
            <<width, height, options>>)

\* self.onmessage when compressFile throws at that stage with that text
\* (one run per behaviour: the catch keeps nothing)
TaskThrows(stage, words) ==
    /\ utilCall.fn = "none"
    /\ utilCall' = [fn |-> "catch", stage |-> stage, thrown |-> Message(words, <<>>),
                    posted |-> errorMsg(Message(words, <<>>)),
                    diag |-> <<>>]
    /\ lastOp' = Op("catch", NoId)
    /\ UNCHANGED <<encodeCall, offered>>
    /\ UNCHANGED mainVars
    /\ UNCHANGED workerVars

\* self.onmessage when module.encode throws err inside the jxl case of
\* encodeImage, for an image of size dims at that quality level
JxlEncodeCrashes(words, qualityMode, dims) ==
    LET options == encode("jxl", config("jxl", qualityMode), dims[1] * dims[2])
        thrown == jxlCrashMessage(Message(words, <<>>), dims[1], dims[2], options)
    IN  /\ utilCall.fn = "none"
        /\ utilCall' = [fn |-> "catch", stage |-> "jxl", thrown |-> thrown,
                        posted |-> errorMsg(thrown),
                        diag |-> <<dims[1], dims[2], options>>]
        /\ lastOp' = Op("catch", NoId)
        /\ UNCHANGED <<encodeCall, offered>>
        /\ UNCHANGED mainVars
        /\ UNCHANGED workerVars

\* ------------------------------------------------------- specifications
Slots == 1..(MaxFiles * (1 + MaxRetries))

\* input mime types of the orchestration runs: one that is decoded and encoded
\* by awaited one-shot codecs, and one that isSupportedFile rejects
OrchMimes == {"image/jpeg", "image/gif"}

WorkerStep ==
    \E w \in Workers :
        \/ WorkerReceive(w)
        \/ \E i \in Slots :
            \/ DecodeThrows(w, i)
            \/ \E ok \in BOOLEAN : DecodeReturns(w, i, ok)
            \/ EncodeReturns(w, i)
            \/ EncodeThrows(w, i)

DeliverStep == \E w \in Workers : Deliver(w)

\* orchestration: submissions, retries, worker steps, responses, fatal errors
Next ==
    \/ \E newFiles \in Batches(OrchMimes, MaxBatch) : AddFiles(newFiles, MaxFiles)
    \/ \E id \in Ids : RetryFile(id)
    \/ DeliverStep
    \/ \E w \in Workers : WorkerError(w)
    \/ WorkerStep

Spec == Init /\ [][Next]_vars

\* input mime types of the fair orchestration runs
RespawnMimes == {"image/jpeg", "image/png", "image/gif"}

\* orchestration under fairness: every awaited codec call eventually settles
\* and every posted message event is eventually dispatched

NextLive ==
    \/ \E newFiles \in Batches(RespawnMimes, MaxBatch) : AddFiles(newFiles, MaxLiveFiles)
    \/ \E id \in Ids : RetryFile(id)
    \/ DeliverStep
    \/ \E w \in Workers : WorkerError(w)
    \/ WorkerStep

LiveSpec == Init /\ [][NextLive]_vars /\ WF_vars(WorkerStep) /\ WF_vars(DeliverStep)

\* orchestration with the hook's removeFile and clearAll
NextRemove ==
    \/ \E newFiles \in Batches(OrchMimes, MaxBatch) : AddFiles(newFiles, MaxFiles)
    \/ \E id \in Ids : RemoveFile(id)
    \/ ClearAll
    \/ DeliverStep
    \/ \E w \in Workers : WorkerError(w)
    \/ WorkerStep

RemoveSpec == Init /\ [][NextRemove]_vars

\* orchestration with retries and removals, under the same fairness
NextFull ==
    \/ \E newFiles \in Batches(OrchMimes, MaxBatch) : AddFiles(newFiles, MaxLiveFiles)
    \/ \E id \in Ids : RetryFile(id)
    \/ \E id \in Ids : RemoveFile(id)
    \/ ClearAll
    \/ DeliverStep
    \/ \E w \in Workers : WorkerError(w)
    \/ WorkerStep

LiveFullSpec == Init /\ [][NextFull]_vars /\ WF_vars(WorkerStep) /\ WF_vars(DeliverStep)

\* the settings panel in front of the pipeline: input types that keep their
\* format, and HEIC, which is decode-only
SettingsMimes == {"image/jpeg", "image/png", "image/heic"}

JxlStep == \E w \in Workers : \E i \in Slots : \E ok \in BOOLEAN : JxlInitReturns(w, i, ok)

NextSettings ==
    \/ ChooseKeepOriginal
    \/ \E value \in TARGET_FORMATS : ChooseFormat(value)
    \/ \E level \in QualityLevel : ChooseQuality(level)
    \/ ResetSettings
    \/ \E newFiles \in Batches(SettingsMimes, 1) : AddFiles(newFiles, MaxSettingsFiles)
    \/ DeliverStep
    \/ WorkerStep
    \/ JxlStep

SettingsSpec == Init /\ [][NextSettings]_vars

\* encodeImage on its own, run after run: every format, level and image size
NextEncode ==
    \E format \in SupportedFormat : \E qualityMode \in QualityLevel : \E dims \in Dims :
        EncodeImage(format, qualityMode, dims)

EncodeSpec == Init /\ [][NextEncode]_vars

\* encodeImage on its own: every format, table entry and image size
NextConfig ==
    \E format \in SupportedFormat : \E c \in LevelConfigs : \E dims \in Dims :
        EncodeWithConfig(format, c, dims)

ConfigSpec == Init /\ [][NextConfig]_vars

\* submissions with the offered files in view, and the pipeline behind them
NextSubmit ==
    \/ \E newFiles \in Batches(OrchMimes, MaxBatch) : OfferFiles(newFiles, MaxFiles)
    \/ DeliverStep
    \/ WorkerStep

SubmitSpec == Init /\ [][NextSubmit]_vars

\* the settings panel, submissions and retries in front of the pipeline, with
\* one of the target formats and one of the quality levels beside the defaults
RetuneFormats == {"webp"}

RetuneLevels == {"low"}

NextRetune ==
    \/ ChooseKeepOriginal
    \/ \E value \in RetuneFormats : ChooseFormat(value)
    \/ \E level \in RetuneLevels : ChooseQuality(level)
    \/ ResetSettings
    \/ \E newFiles \in Batches({"image/jpeg"}, 1) : AddFiles(newFiles, MaxSettingsFiles)
    \/ \E id \in Ids : RetryFile(id)
    \/ DeliverStep
    \/ WorkerStep

RetuneSpec == Init /\ [][NextRetune]_vars

\* compressionRatio on its own: every original size up to MaxSize against
\* every compressed size up to twice that
NextRatio ==
    \E original \in 0..MaxSize : \E compressed \in 0..(2 * MaxSize) :
        CompressionRatio(original, compressed)

RatioSpec == Init /\ [][NextRatio]_vars

\* downloadFile on its own: every name up to MaxNameLen characters against
\* every type a compressed blob is given
NextDownload ==
    \E name \in Names : \E format \in SupportedFormat :
        DownloadFile(name, formatToMime(format))

DownloadSpec == Init /\ [][NextDownload]_vars

\* the worker's catch on its own: every stage and error text, and the jxl
\* encoder's crash for every quality level and image size
NextCatch ==
    \/ \E stage \in Stages : \E words \in ErrorTexts : TaskThrows(stage, words)
    \/ \E words \in ErrorTexts : \E qualityMode \in QualityLevel : \E dims \in Dims :
          JxlEncodeCrashes(words, qualityMode, dims)

CatchSpec == Init /\ [][NextCatch]_vars

\* JXL files through the pipeline, with fatal errors: every encode is a jxl
\* encode, so no awaited one-shot encoder is ever entered
JxlMimes == {"image/jxl"}

NextJxl ==
    \/ \E newFiles \in Batches(JxlMimes, MaxBatch) : AddFiles(newFiles, MaxFiles)
    \/ DeliverStep
    \/ \E w \in Workers : WorkerError(w)
    \/ \E w \in Workers : WorkerReceive(w)
    \/ \E w \in Workers : \E i \in Slots : DecodeThrows(w, i)
    \/ \E w \in Workers : \E i \in Slots : \E ok \in BOOLEAN : DecodeReturns(w, i, ok)
    \/ JxlStep

JxlSpec == Init /\ [][NextJxl]_vars

\* the pipeline with file and blob sizes in view: JPEG files of size 0 and 40,
\* compressed to 10 or to 50 bytes, with retries and fatal errors
FileSizes == {0, 40}

BlobSizes == {10, 50}

NextSized ==
    \/ \E size \in FileSizes : AddSizedFiles(<<"image/jpeg">>, <<size>>, MaxSettingsFiles)
    \/ \E id \in Ids : RetryFile(id)
    \/ DeliverStep
    \/ \E w \in Workers : WorkerError(w)
    \/ \E w \in Workers : WorkerReceive(w)
    \/ \E w \in Workers : \E i \in Slots :
          \/ DecodeThrows(w, i)
          \/ \E ok \in BOOLEAN : DecodeReturns(w, i, ok)
          \/ \E size \in BlobSizes : EncodeReturnsSized(w, i, size)
          \/ EncodeThrows(w, i)

SizedSpec == Init /\ [][NextSized]_vars

\* -------------------------------------------------------------- properties
InFlight(w, id) == CountId(inbox[w], id) + CountId(tasks[w], id)

Final == {"done", "error"}

\* C1: while no worker has crashed, every request message is in exactly one of
\* three places: not yet dispatched, being handled, or answered by exactly one
\* response; every response is either still to be delivered or has run exactly
\* one handleMessage closure, that of its own id; and a file is done or error
\* exactly when each of its requests has been answered and delivered, at most
\* one request per file being outstanding.
C1_ExactlyOneResult ==
    crashes = 0 =>
        \A id \in Ids :
            /\ sent[id] = InFlight(workerRef, id) + posted[id]
            /\ posted[id] = CountId(outbox[workerRef], id) + resolved[id]
            /\ sent[id] - resolved[id] \in {0, 1}
            /\ HasFile(id) =>
                /\ sent[id] >= 1
                /\ (StatusOf(id) \in Final) <=> (resolved[id] = sent[id])
                /\ (StatusOf(id) = "compressing") <=> (resolved[id] < sent[id])

\* two files submitted together and one of them retried: each of the three
\* requests has got its one result
C1_Witness ==
    /\ crashes = 0
    /\ idCounter = 2
    /\ sent[0] = 2 /\ resolved[0] = 2 /\ posted[0] = 2
    /\ sent[1] = 1 /\ resolved[1] = 1 /\ posted[1] = 1
    /\ StatusOf(0) = "done"
    /\ StatusOf(1) = "error"

\* C2: responses are posted in the order the requests were received: a worker
\* that posts a response posts that of the earliest received request it is
\* still handling.
C2_ArrivalOrder ==
    [][\A w \in Workers :
          (w \in live' /\ Len(outbox'[w]) = Len(outbox[w]) + 1)
              => (tasks[w] = <<>> \/ tasks'[w] = Tail(tasks[w]))]_vars

\* C3: a worker never has two requests in progress at once.
C3_OneAtATime == \A w \in Workers : Len(tasks[w]) <= 1

\* C4: the delivery of a response with id X leaves every file entry whose id
\* is not X unchanged and keeps the list's length; when no entry has id X the
\* whole list is unchanged.
C4_ResponseFrame ==
    [][\A w \in Workers :
          (w \in live /\ w \in live' /\ outbox[w] # <<>> /\ outbox'[w] = Tail(outbox[w]))
              => LET x == Head(outbox[w]).id
                 IN  /\ Len(files') = Len(files)
                     /\ \A i \in DOMAIN files : files[i].id # x => files'[i] = files[i]
                     /\ ~HasFile(x) => files' = files]_vars

\* a success response has just been delivered for a file that was removed
\* meanwhile, another file being in the list
C4_Witness ==
    /\ lastOp.op = "deliverSuccess"
    /\ ~HasFile(lastOp.id)
    /\ resolved[lastOp.id] = 1
    /\ files # <<>>

\* C5: a fatal error event turns exactly the compressing files into error with
\* the engine-crashed message, leaves every other file as it is, terminates
\* the worker the hook referred to and makes the hook refer to a new live one.
C5_CrashFinalizes ==
    [][crashes' = crashes + 1 =>
          /\ Len(files') = Len(files)
          /\ \A i \in DOMAIN files :
                files'[i] = IF files[i].status = "compressing"
                            THEN [files[i] EXCEPT !.status = "error", !.error = CrashMsg]
                            ELSE files[i]
          /\ workerRef \in live /\ workerRef \notin live'
          /\ workerRef' \in live' /\ workerRef' \notin live
          /\ inbox'[workerRef] = <<>> /\ tasks'[workerRef] = <<>> /\ outbox'[workerRef] = <<>>]_vars

\* a crash has just hit one compressing file while another was already done
C5_Witness ==
    /\ lastOp.op = "workerError"
    /\ \E i \in DOMAIN files : files[i].status = "error" /\ files[i].error = CrashMsg
    /\ \E i \in DOMAIN files : files[i].status = "done"

\* C6: no request is ever posted to a terminated worker; right after a fatal
\* error no file is left compressing; and a file that is compressing after a
\* crash (a new file or a retry) ends in done or error.
C6_RespawnServes ==
    /\ [](\A w \in Workers \ live : inbox[w] = <<>> /\ tasks[w] = <<>>)
    /\ [](workerRef \in live)
    /\ [](lastOp.op = "workerError" => ~isCompressing)
    /\ \A id \in Ids :
          (crashes > 0 /\ StatusOf(id) = "compressing") ~> (StatusOf(id) \in Final)

\* a file that the crash set to error was retried on the respawned worker and is done
C6_Witness ==
    /\ crashes > 0
    /\ \E i \in DOMAIN files :
          /\ files[i].status = "done"
          /\ files[i].error = CrashMsg
          /\ sent[files[i].id] = 2

\* C7: a file that is pending or compressing eventually is done or error, or
\* has been removed from the list.
C7_EveryFileSettles ==
    \A id \in Ids :
        (StatusOf(id) \in {"pending", "compressing"}) ~> (StatusOf(id) \in Final \cup {"absent"})

\* after a crash and a retry the file has settled with a task-level failure
C7_Witness ==
    /\ crashes > 0
    /\ retries > 0
    /\ files # <<>>
    /\ \A i \in DOMAIN files : files[i].status \in Final
    /\ \E i \in DOMAIN files : files[i].status = "error" /\ files[i].error \in TaskErrorMsgs

\* C8: when a worker posts a failure response it stays alive and referred to,
\* no file changes and the other requests it is handling stay in progress;
\* when the failure response is delivered only the file of its id changes, to
\* error with the response's message.
C8_TaskErrorIsolated ==
    [][\A w \in Workers :
          /\ (w \in live /\ Len(outbox'[w]) = Len(outbox[w]) + 1 /\ ~outbox'[w][Len(outbox'[w])].success)
                => /\ live' = live /\ workerRef' = workerRef /\ crashes' = crashes
                   /\ files' = files
                   /\ Len(tasks'[w]) >= Len(tasks[w]) - 1
                   /\ \A i \in DOMAIN tasks[w] :
                         tasks[w][i].id # outbox'[w][Len(outbox'[w])].id
                             => \E j \in DOMAIN tasks'[w] : tasks'[w][j] = tasks[w][i]
          /\ (w \in live /\ w \in live' /\ outbox[w] # <<>> /\ outbox'[w] = Tail(outbox[w])
                /\ ~Head(outbox[w]).success)
                => /\ live' = live /\ workerRef' = workerRef /\ crashes' = crashes
                   /\ tasks' = tasks /\ inbox' = inbox
                   /\ Len(files') = Len(files)
                   /\ \A i \in DOMAIN files :
                         files'[i] = IF files[i].id = Head(outbox[w]).id
                                     THEN [files[i] EXCEPT !.status = "error", !.error = Head(outbox[w]).error]
                                     ELSE files[i]]_vars

\* a decode failure has just been delivered for one file while the request of
\* another is still in progress on the same, never respawned, worker
C8_Witness ==
    /\ lastOp.op = "deliverFailure"
    /\ crashes = 0 /\ workerRef = 0
    /\ StatusOf(lastOp.id) = "error"
    /\ FileOf(lastOp.id).error = DecodeErrorMsg
    /\ \E id \in Ids : id # lastOp.id /\ StatusOf(id) = "compressing" /\ CountId(tasks[0], id) = 1

\* C9: in one step a file's status stays as it is or moves from a new entry to
\* compressing (addFiles: pending, then compressing in the same handler), from
\* compressing to done or to error, or from error to compressing; the last
\* happens only in a retryFile call for that file, which moves no other file.
StatusMoves ==
    {<<"absent", "compressing">>, <<"pending", "compressing">>,
     <<"compressing", "done">>, <<"compressing", "error">>, <<"error", "compressing">>}

C9_StatusTransitions ==
    [][\A id \in Ids :
          /\ StatusOf(id)' = StatusOf(id) \/ <<StatusOf(id), StatusOf(id)'>> \in StatusMoves
          /\ (StatusOf(id) = "error" /\ StatusOf(id)' = "compressing")
                => /\ retries' = retries + 1
                   /\ sent'[id] = sent[id] + 1
                   /\ \A other \in Ids \ {id} : StatusOf(other)' = StatusOf(other)]_vars

\* a file failed in the worker, was retried and is done
C9_Witness ==
    \E i \in DOMAIN files :
        /\ files[i].status = "done"
        /\ files[i].error \in TaskErrorMsgs
        /\ sent[files[i].id] = 2

\* C10: every encodeImage call is for a (format, level) cell of the table
\* that is supported.
C10_NoUnsupportedEncode ==
    lastEncode.format # Undefined
        => COMPRESSION_CONFIG[lastEncode.format][lastEncode.quality].supported

\* C11: the table has an entry for each of the six formats and four levels,
\* and the entry encodeImage resolves is supported except exactly for
\* (jpeg, lossless) and the four heic pairs.
C11_TableSupport ==
    /\ DOMAIN COMPRESSION_CONFIG = SupportedFormat
    /\ \A f \in SupportedFormat : DOMAIN COMPRESSION_CONFIG[f] = QualityLevel
    /\ Cardinality(SupportedFormat) = 6 /\ Cardinality(QualityLevel) = 4
    /\ encodeCall.mode # Undefined =>
          (encodeCall.config.supported <=>
              ~(\/ encodeCall.format = "jpeg" /\ encodeCall.mode = "lossless"
                \/ encodeCall.format = "heic"))

\* encodeImage has resolved the entry of (jpeg, lossless)
C11_Witness ==
    /\ encodeCall.format = "jpeg"
    /\ encodeCall.mode = "lossless"
    /\ ~encodeCall.config.supported

\* C12: a png encode calls the optimiser with the level the table gives for
\* the requested quality level.
C12_PngLevel ==
    (encodeCall.format = "png" /\ encodeCall.mode # Undefined) =>
        /\ encodeCall.call.encoder = "oxipng"
        /\ encodeCall.call.level = COMPRESSION_CONFIG["png"][encodeCall.mode].value

C15_EffortTier ==
    /\ [](encodeCall.format = "jxl" =>
            /\ encodeCall.call.effort \in 1..5
            /\ encodeCall.call.effort =
                  (CASE encodeCall.pixels <= 249999 -> 5
                     [] encodeCall.pixels \in 250000..499999 -> 3
                     [] encodeCall.pixels \in 500000..1499999 -> 2
                     [] encodeCall.pixels >= 1500000 -> 1))
    /\ [][(encodeCall.format = "jxl" /\ encodeCall'.format = "jxl"
             /\ encodeCall'.pixels >= encodeCall.pixels)
            => encodeCall'.call.effort <= encodeCall.call.effort]_vars

\* a lossless jxl encode of exactly 250,000 pixels got effort 3
C15_Witness ==
    /\ encodeCall.format = "jxl"
    /\ encodeCall.mode = "lossless"
    /\ encodeCall.pixels = 250000
    /\ encodeCall.call.effort = 3

\* C16: the quality a jxl encode hands to the encoder is 100 when the resolved
\* entry is lossless, whatever value it holds, and the resolved quality otherwise.
C16_JxlFinalQuality ==
    encodeCall.format = "jxl" =>
        /\ encodeCall.call.encoder = "jxl"
        /\ encodeCall.call.quality =
              IF encodeCall.config.isLossless THEN 100 ELSE quality(encodeCall.config)

\* a lossless entry holding the value 60 was encoded with quality 100
C16_Witness ==
    /\ encodeCall.format = "jxl"
    /\ encodeCall.config.isLossless
    /\ encodeCall.config.value = 60
    /\ encodeCall.call.quality = 100

\* C14: a file that is done and whose request had heic as its effective output
\* format (the target format, or the format of a HEIC/HEIF input submitted with
\* no target format) holds a result of mime type image/jpeg.
C14_HeicResultIsJpeg ==
    \A i \in DOMAIN files :
        (/\ files[i].status = "done"
         /\ sent[files[i].id] = 1
         /\ OutputFormat([format |-> files[i].appliedSettings.format, mime |-> files[i].mime]) = "heic")
            => files[i].compressedBlob = "image/jpeg"

\* C17: an offered file whose mime type is not in the format table is taken
\* into the list and submitted (to be decoded through the canvas path).
C17_CanvasFallback ==
    \A k \in DOMAIN offered :
        ~isSupportedFile(offered[k]) => \E i \in DOMAIN files : files[i].mime = offered[k]

\* C18: exactly one worker instance is live at any time, before and after any
\* fatal error, and workerRef.current is that instance.
C18_OneLiveWorker ==
    /\ Cardinality(live) = 1
    /\ workerRef \in live

\* a fatal error has happened and the respawned instance is the one referred to
C18_Witness ==
    /\ crashes > 0
    /\ lastOp.op = "workerError"
    /\ workerRef # 0
    /\ live = {workerRef}

\* C19: a retryFile call posts one request to the current worker, with the
\* file's id and input and with the quality and format of the settings as they
\* are at the call, whatever settings the file was added under.
C19_RetryUsesCurrentSettings ==
    [][\A id \in Ids :
          (retries' = retries + 1 /\ lastOp'.op = "retryFile" /\ lastOp'.id = id) =>
              /\ HasFile(id)
              /\ settings' = settings
              /\ workerRef' = workerRef
              /\ Len(inbox'[workerRef]) = Len(inbox[workerRef]) + 1
              /\ LET m == inbox'[workerRef][Len(inbox'[workerRef])]
                 IN  /\ m.id = id
                     /\ m.mime = FileOf(id).mime
                     /\ m.quality = settings.quality
                     /\ m.format = settings.format]_vars

\* a retry has just posted a request whose options differ from the settings
\* the file was added under
C19_Witness ==
    /\ lastOp.op = "retryFile"
    /\ inbox[workerRef] # <<>>
    /\ LET m == inbox[workerRef][Len(inbox[workerRef])]
       IN  /\ m.id = lastOp.id
           /\ [quality |-> m.quality, format |-> m.format] # FileOf(lastOp.id).appliedSettings
           /\ m.format = settings.format
           /\ m.quality = settings.quality

\* C20: the entries of the list have pairwise distinct ids, and no worker has
\* two requests of one id outstanding (posted and not yet answered by a
\* delivered response); a retry posts its request when none is outstanding.
C20_UniqueOutstandingIds ==
    /\ [](\A i, j \in DOMAIN files : i # j => files[i].id # files[j].id)
    /\ [](\A w \in Workers : \A id \in Ids : InFlight(w, id) + CountId(outbox[w], id) <= 1)
    /\ [][\A id \in Ids :
            (lastOp'.op = "retryFile" /\ lastOp'.id = id /\ retries' = retries + 1)
                => InFlight(workerRef, id) + CountId(outbox[workerRef], id) = 0]_vars

\* a retried file and another file both have a request outstanding
C20_Witness ==
    \E id \in Ids : \E other \in Ids \ {id} :
        /\ sent[id] = 2
        /\ InFlight(workerRef, id) = 1
        /\ InFlight(workerRef, other) + CountId(outbox[workerRef], other) = 1

\* C21: the compression ratio is 0 when the original size is 0 and otherwise
\* an integer nearest to 100 * (original - compressed) / original; a positive
\* ratio implies compressed < original and a negative one compressed > original
C21_RatioRounded ==
    utilCall.fn = "compressionRatio" =>
        LET o == utilCall.original
            c == utilCall.compressed
            r == utilCall.ratio
        IN  /\ o = 0 => r = 0
            /\ o > 0 => /\ 2 * o * r - 200 * (o - c) <= o
                        /\ 200 * (o - c) - 2 * o * r <= o
            /\ r > 0 => c < o
            /\ r < 0 => c > o

\* C21 witness: a file that grew from 40 to 51 bytes gets a negative ratio
C21_Witness ==
    /\ utilCall.fn = "compressionRatio"
    /\ utilCall.original = 40
    /\ utilCall.compressed = 51
    /\ utilCall.ratio < 0

\* C22: the download name of a finished file is its name up to the last dot
\* that starts an extension, then "_compressed.", then the extension of the
\* artifact's format: the format name, except jpg for jpeg
C22_DownloadName ==
    utilCall.fn = "downloadFile" =>
        LET name == utilCall.name
            format == CHOOSE f \in SupportedFormat : FORMAT_TO_MIME[f] = utilCall.type
            dots == {p \in 1..Len(name) : name[p] = "."}
            last == CHOOSE p \in dots : \A q \in dots : q <= p
            stem == IF dots # {} /\ last < Len(name) THEN SubSeq(name, 1, last - 1) ELSE name
            ext == IF format = "jpeg" THEN "jpg" ELSE format
        IN  utilCall.filename = stem \o <<"_compressed", ".", ext>>

\* C22 witness: a.a.a finished as JPEG is offered as a.a_compressed.jpg
C22_Witness ==
    /\ utilCall.fn = "downloadFile"
    /\ utilCall.name = <<"a", ".", "a", ".", "a">>
    /\ utilCall.type = "image/jpeg"
    /\ utilCall.filename = <<"a", ".", "a", "_compressed", ".", "jpg">>

\* C23: a failure response carries the caught error's own message, unless
\* that message contains "unreachable", "memory" or "OOM": then it carries the
\* fixed insufficient-memory message; encode errors are rephrased like any other
C23_MemoryRephrased ==
    utilCall.fn = "catch" =>
        LET indicated == \E k \in DOMAIN utilCall.thrown.words :
                             utilCall.thrown.words[k] \in {"unreachable", "memory", "OOM"}
        IN  /\ indicated => utilCall.posted = InsufficientMemoryMsg
            /\ ~indicated => utilCall.posted = utilCall.thrown

\* C23 witness: an encode error whose text says OOM is posted as the fixed message
C23_Witness ==
    /\ utilCall.fn = "catch"
    /\ utilCall.stage = "encode"
    /\ utilCall.thrown.words = <<"failed", "OOM">>
    /\ utilCall.posted = InsufficientMemoryMsg

\* C24: when the jxl encoder crashes, the message posted for the task carries
\* the image's dimensions and the options of the encode, whatever the text of
\* the crash
C24_JxlDiagnostics ==
    (utilCall.fn = "catch" /\ utilCall.stage = "jxl") =>
        utilCall.posted.diag = utilCall.diag

C26_AvifEffort ==
    (encodeCall.format = "avif" /\ encodeCall.mode = "high" /\ encodeCall.pixels = 3000000) =>
        /\ encodeCall.call.quality = 75
        /\ encodeCall.call.lossless = FALSE
        /\ encodeCall.call.effort = 1

\* C29: every jxl encode is made with lossyPalette and lossyModular both
\* false, at every quality level and image size
C29_JxlLossyFlagsOff ==
    encodeCall.call.encoder = "jxl" =>
        /\ encodeCall.call.lossyPalette = FALSE
        /\ encodeCall.call.lossyModular = FALSE

\* C29 witness: a lossless jxl encode of a 4000x3000 image with both flags off
C29_Witness ==
    /\ encodeCall.call.encoder = "jxl"
    /\ encodeCall.mode = "lossless"
    /\ encodeCall.pixels = 12000000
    /\ encodeCall.call.lossyPalette = FALSE
    /\ encodeCall.call.lossyModular = FALSE

\* C30: a webp or avif encode passes the lossless flag or a numeric quality,
\* never both and never neither, the flag exactly when the table entry is
\* lossless; an avif encode without the flag also passes a speed
C30_LosslessOrQuality ==
    encodeCall.format \in {"webp", "avif"} =>
        /\ encodeCall.call.lossless # (encodeCall.call.quality # NoValue)
        /\ encodeCall.call.lossless = encodeCall.config.isLossless
        /\ (encodeCall.format = "avif" /\ ~encodeCall.call.lossless) =>
              "speed" \in DOMAIN encodeCall.call

\* C30 witness: an avif encode at quality 50, without the lossless flag and
\* with speed 8
C30_Witness ==
    /\ encodeCall.format = "avif"
    /\ encodeCall.call.quality = 50
    /\ ~encodeCall.call.lossless
    /\ encodeCall.call.speed = 8

\* C27: within one worker instance the jxl encoder module is instantiated at
\* most once, however the handlers of the jxl requests interleave
C27_OneJxlInstance ==
    \A w \in Workers : jxlModuleInstance[w] <= 1

\* C28: a fatal error leaves the hook with a new worker instance that has no
\* jxl encoder instance; a terminated instance never runs again, so its encoder
\* instance is never used again; and a jxl encode that ends on an instance that
\* had no encoder instance is the one that created it
C28_RespawnDropsJxl ==
    /\ [][lastOp'.op = "workerError" =>
            /\ workerRef' # workerRef
            /\ workerRef \notin live'
            /\ jxlModuleInstance'[workerRef'] = 0]_vars
    /\ [][\A w \in Workers \ live :
            /\ tasks'[w] = tasks[w]
            /\ outbox'[w] = outbox[w]
            /\ jxlModuleInstance'[w] = jxlModuleInstance[w]]_vars
    /\ [][\A w \in Workers :
            (/\ jxlModuleInstance[w] = 0
             /\ lastOp'.op \in {"decodeReturns", "jxlInitReturns"}
             /\ lastEncode'.format = "jxl"
             /\ Len(outbox'[w]) > Len(outbox[w]))
            => /\ lastOp'.op = "jxlInitReturns"
               /\ jxlModuleInstance'[w] = 1]_vars

\* C28 witness: the first worker had an encoder instance, a fatal error replaced
\* the worker, and a jxl encode on the new worker has just created its own
C28_Witness ==
    /\ crashes = 1
    /\ jxlModuleInstance[0] >= 1
    /\ jxlModuleInstance[workerRef] = 1
    /\ workerRef # 0
    /\ lastOp.op = "jxlInitReturns"

\* C31: a file that is done records as its outputFormat the format of its
\* compressed blob's mime type, whatever the input type and whatever setting
\* changes happened between its submission, its completion and a retry
C31_OutputFormatOfBlob ==
    \A i \in DOMAIN files :
        files[i].status = "done" => files[i].outputFormat = mimeToFormat(files[i].compressedBlob)

\* C32: a file's appliedSettings are the quality and format of the request
\* that its latest submission, by addFiles or by retryFile, sent to the worker
C32_AppliedSettingsSent ==
    [][lastOp'.op \in {"addFiles", "retryFile"} =>
          \A k \in DOMAIN inbox'[workerRef] : \A i \in DOMAIN files' :
              (k > Len(inbox[workerRef]) /\ files'[i].id = inbox'[workerRef][k].id) =>
                  files'[i].appliedSettings = [quality |-> inbox'[workerRef][k].quality,
                                               format |-> inbox'[workerRef][k].format]]_vars

\* C33: a file carries an error message exactly while its status is error
C33_ErrorOnlyOnError ==
    \A i \in DOMAIN files :
        (files[i].error # Undefined) <=> (files[i].status = "error")

\* C35: once a file is done or error, the promise of each of its submissions
\* has been resolved, also when the fatal-error handler set it to error
C35_PromiseResolved ==
    \A i \in DOMAIN files :
        files[i].status \in Final => resolved[files[i].id] = sent[files[i].id]

\* C34: a file has a compressed blob, a compressed size, a ratio and an
\* elapsed time exactly when it is done; the compressed size is the size of the
\* blob of the response that made it done, and the ratio is
\* compressionRatio(originalSize, compressedSize)
C34_ResultFieldsWhenDone ==
    /\ [](\A i \in DOMAIN files :
            LET f == files[i]
                done == f.status = "done"
            IN  /\ done <=> f.compressedBlob # Undefined
                /\ done <=> f.compressedSize # NoValue
                /\ done <=> f.ratio # <<>>
                /\ done <=> f.time # NoValue
                /\ done => f.ratio[1] \in compressionRatio(f.originalSize, f.compressedSize))
    /\ [][\A w \in Workers : \A i \in DOMAIN files :
            (/\ lastOp'.op = "deliverSuccess"
             /\ outbox[w] # <<>>
             /\ outbox'[w] = Tail(outbox[w])
             /\ files[i].id = lastOp'.id)
            => /\ files'[i].status = "done"
               /\ files'[i].compressedBlob = Head(outbox[w]).blob
               /\ files'[i].compressedSize = Head(outbox[w]).size
               /\ files'[i].time = Head(outbox[w]).time]_vars

\* C34 witness: a 40-byte file that failed and was retried is done with a
\* 50-byte blob and a negative ratio
C34_Witness ==
    \E i \in DOMAIN files :
        /\ files[i].status = "done"
        /\ files[i].originalSize = 40
        /\ files[i].compressedSize = 50
        /\ files[i].ratio = <<0 - 25>>
        /\ retries = 1

\* C36: an entry that was removed never comes back; the delivery of a response
\* and a fatal error keep the list's ids as they are, the delivery changing at
\* most the entry of the response's id and the fatal error at most the
\* compressing entries
C36_RemovedStaysRemoved ==
    /\ [][\A id \in Ids : (id < idCounter /\ ~HasFile(id)) => ~HasFile(id)']_vars
    /\ [][lastOp'.op \in {"deliverSuccess", "deliverFailure", "workerError"} =>
            /\ Len(files') = Len(files)
            /\ \A i \in DOMAIN files :
                  /\ files'[i].id = files[i].id
                  /\ files'[i] # files[i] =>
                        IF lastOp'.op = "workerError"
                        THEN files[i].status = "compressing"
                        ELSE files[i].id = lastOp'.id]_vars

\* C36 witness: a fatal error has just come after the removal of a file, with
\* another entry left in the list
C36_Witness ==
    /\ lastOp.op = "workerError"
    /\ files # <<>>
    /\ \E id \in Ids : id < idCounter /\ ~HasFile(id)

====
